---- MODULE Spec2Model ----
(***************************************************************************)
(* A model of seo-cl-analysis.py: the command-line SEO audit of one page.  *)
(*                                                                         *)
(* Text whose only observed properties are emptiness and length (title,    *)
(* description, heading text, alt text) is a sequence of characters.       *)
(* A URL or href is a record [scheme, host, path]; an empty scheme and     *)
(* host make it a relative reference.  A printed line is a record          *)
(* [status, label, content]; a section header is a line of status          *)
(* "HEADER".  The network is the environment: every request draws its      *)
(* outcome from a small set of transport errors and HTTP answers.          *)
(***************************************************************************)
EXTENDS Integers, Sequences, FiniteSets, TLC

VARIABLES
    pc,             \* position of main(), or of the pure-function harness
    opts,           \* the options main() derives from the command line
    site,           \* the document the audited URL serves (environment)
    fetched,        \* what the network did with the primary GET
    response,       \* the value fetch_url_content returned
    out,            \* the lines printed so far
    reqs,           \* the network requests issued so far
    content,        \* evaluate_field_length: argument
    optimal_range,  \* evaluate_field_length: argument
    status,         \* evaluate_field_length: return value
    text_words,     \* keyword ranking: the words of text_content, in order
    stop_words,     \* keyword ranking: the stopword set
    keywords        \* keyword ranking: the ranked result

vars == <<pc, opts, site, fetched, response, out, reqs,
          content, optimal_range, status, text_words, stop_words, keywords>>

mainVars == <<opts, site, fetched, response, out, reqs>>
fieldVars == <<content, optimal_range, status>>
rankVars == <<text_words, stop_words, keywords>>

----------------------------------------------------------------------------
(* Bounds of the model. *)

\* longest text of the generic evaluate_field_length inputs
MaxLen == 4
\* most extra words before, and after, the base word list of a text
MaxExtra == 2
\* most H1 tags of a generated page
MaxHeadings == 2
\* most images of a generated page
MaxImages == 2
\* most anchors of a generated page
MaxAnchors == 2

----------------------------------------------------------------------------
(* Program constants. *)

SEO_TITLE_LIMITS == <<50, 60>>
SEO_DESC_LIMITS == <<150, 160>>
SEO_H1_LIMIT == 70

None == [kind |-> "None"]

\* A text of n characters.
Str(n) == [i \in 1..n |-> "x"]

----------------------------------------------------------------------------
(* evaluate_field_length *)

evaluate_field_length_NoEmptyCheck(c, range) ==
    IF range[1] <= Len(c) /\ Len(c) <= range[2] THEN "GOOD" ELSE "NEUTRAL"

evaluate_field_length(c, range) ==
    IF c = <<>> THEN "FAIL"
    ELSE IF range[1] <= Len(c) /\ Len(c) <= range[2] THEN "GOOD"
    ELSE "NEUTRAL"

\* The lengths around the thresholds the program uses.
ThresholdLens == {49, 50, 60, 61, 70, 71, 149, 150, 160, 161}

FieldContents == {Str(n) : n \in (0..MaxLen) \cup ThresholdLens}

FieldRanges ==
    {<<lo, hi>> : lo \in 0..(MaxLen + 1), hi \in 0..(MaxLen + 1)}
        \cup {SEO_TITLE_LIMITS, SEO_DESC_LIMITS, <<1, SEO_H1_LIMIT>>}

MainIdle ==
    /\ opts = None
    /\ site = None
    /\ fetched = None
    /\ response = None
    /\ out = <<>>
    /\ reqs = <<>>

FieldIdle ==
    /\ content = <<>>
    /\ optimal_range = <<0, 0>>
    /\ status = "none"

RankIdle ==
    /\ text_words = <<>>
    /\ stop_words = {}
    /\ keywords = <<>>

FieldInit ==
    /\ pc = "call"
    /\ content \in FieldContents
    /\ optimal_range \in FieldRanges
    /\ status = "none"
    /\ MainIdle
    /\ RankIdle

EvaluateFieldLength ==
    /\ pc = "call"
    /\ status' = evaluate_field_length(content, optimal_range)
    /\ pc' = "return"
    /\ UNCHANGED <<content, optimal_range>>
    /\ UNCHANGED mainVars
    /\ UNCHANGED rankVars

FieldNext == EvaluateFieldLength

SpecField == FieldInit /\ [][FieldNext]_vars

\* C1: evaluate_field_length(s, (min, max)) is FAIL when s is empty, GOOD
\* exactly when s is non-empty and min <= len(s) <= max, NEUTRAL for every
\* other non-empty s, and never anything else.
C1_FieldLength ==
    pc = "return" =>
        /\ status \in {"FAIL", "GOOD", "NEUTRAL"}
        /\ (Len(content) = 0 => status = "FAIL")
        /\ (status = "GOOD" <=>
                /\ Len(content) > 0
                /\ optimal_range[1] <= Len(content)
                /\ Len(content) <= optimal_range[2])
        /\ (Len(content) > 0 /\ status # "GOOD" => status = "NEUTRAL")

\* An empty text was evaluated against a range that contains length 0.
C1_Witness ==
    /\ pc = "return"
    /\ Len(content) = 0
    /\ optimal_range[1] = 0
    /\ status = "FAIL"

----------------------------------------------------------------------------
(* semantic_analysis, lines 175-190: the keyword ranking.  A raw word is a  *)
(* record [term, upper]: term k spelled in lower case, or with capitals.    *)

\* number of keywords reported
TopN == 10

\* number of distinct terms of the base word list
NumTerms == 12

Word(k) == [term |-> k, upper |-> FALSE]
Upper(k) == [term |-> k, upper |-> TRUE]

\* str.lower on one word
Lower(w) == [w EXCEPT !.upper = FALSE]

\* re.findall(r'\b\w+\b', text_content.lower())
LowerWords(ws) == [i \in DOMAIN ws |-> Lower(ws[i])]

\* [word for word in words if word not in stop_words]
filtered_words(ws, stops) == SelectSeq(ws, LAMBDA w : w \notin stops)

\* The position of word w in the dict d (0 when absent); a dict is the
\* sequence of its items in insertion order.
RECURSIVE DictIndex(_, _, _)
DictIndex(d, w, i) ==
    IF i > Len(d) THEN 0
    ELSE IF d[i].word = w THEN i
    ELSE DictIndex(d, w, i + 1)

\* word_frequency[word] = word_frequency.get(word, 0) + 1, for each word
RECURSIVE word_frequency(_, _)
word_frequency(ws, d) ==
    IF ws = <<>> THEN d
    ELSE LET w == Head(ws)
             i == DictIndex(d, w, 1)
         IN  word_frequency(Tail(ws),
                 IF i = 0 THEN Append(d, [word |-> w, count |-> 1])
                 ELSE [d EXCEPT ![i].count = @ + 1])

\* Where a sort that is not stable may put item x: before the items of equal
\* count.
RECURSIVE InsertPos_Unstable(_, _, _)
InsertPos_Unstable(s, x, i) ==
    IF i > Len(s) THEN i
    ELSE IF s[i].count <= x.count THEN i
    ELSE InsertPos_Unstable(s, x, i + 1)

\* Where a stable descending sort puts item x into the sorted prefix s:
\* after every item whose count is at least its own.
RECURSIVE InsertPos(_, _, _)
InsertPos(s, x, i) ==
    IF i > Len(s) THEN i
    ELSE IF s[i].count < x.count THEN i
    ELSE InsertPos(s, x, i + 1)

InsertAt(s, x, i) == SubSeq(s, 1, i - 1) \o <<x>> \o SubSeq(s, i, Len(s))

\* sorted(items, key=lambda item: item[1], reverse=True)
RECURSIVE sorted_by_count(_, _)
sorted_by_count(items, acc) ==
    IF items = <<>> THEN acc
    ELSE sorted_by_count(Tail(items),
             InsertAt(acc, Head(items), InsertPos(acc, Head(items), 1)))

\* sequence[:n]
Slice(s, n) == SubSeq(s, 1, IF Len(s) < n THEN Len(s) ELSE n)

\* The words joined into the 'Relevant Keywords' line.
relevant_keywords(ws, stops) ==
    LET ranked == Slice(sorted_by_count(
                      word_frequency(filtered_words(LowerWords(ws), stops), <<>>),
                      <<>>), TopN)
    IN  [i \in DOMAIN ranked |-> ranked[i].word]

\* The inputs: a base list of the first k terms, one occurrence each, with a
\* few extra words before it and a few capitalised ones after it.
BaseWords(k) == [i \in 1..k |-> Word(i)]

ExtraWords == {Word(1), Word(NumTerms - 1), Upper(NumTerms)}

RECURSIVE SeqsUpTo(_, _)
SeqsUpTo(S, n) ==
    IF n = 0 THEN {<<>>}
    ELSE LET shorter == SeqsUpTo(S, n - 1)
         IN  shorter \cup {Append(s, x) : s \in shorter, x \in S}

RankTexts ==
    {pre \o BaseWords(k) \o post :
        pre \in SeqsUpTo(ExtraWords, MaxExtra),
        k \in {0, TopN, NumTerms - 1, NumTerms},
        post \in SeqsUpTo({Upper(NumTerms)}, MaxExtra)}

RankStopWords == SUBSET {Word(1), Word(NumTerms)}

RankInit ==
    /\ pc = "call"
    /\ text_words \in RankTexts
    /\ stop_words \in RankStopWords
    /\ keywords = <<>>
    /\ MainIdle
    /\ FieldIdle

RankKeywords ==
    /\ pc = "call"
    /\ keywords' = relevant_keywords(text_words, stop_words)
    /\ pc' = "return"
    /\ UNCHANGED <<text_words, stop_words>>
    /\ UNCHANGED mainVars
    /\ UNCHANGED fieldVars

RankNext == RankKeywords

SpecRank == RankInit /\ [][RankNext]_vars

\* The token stream: the words of the text, lower-cased.
Tokens == LowerWords(text_words)
Occurrences(t) == {i \in DOMAIN Tokens : Tokens[i] = t}
CountOf(t) == Cardinality(Occurrences(t))
FirstOf(t) == CHOOSE i \in Occurrences(t) : \A j \in Occurrences(t) : i <= j
Candidates == {Tokens[i] : i \in DOMAIN Tokens} \ stop_words
Reported == {keywords[i] : i \in DOMAIN keywords}

\* C10: the ranking reports at most 10 terms (10, or every candidate when
\* there are fewer), none of them a stopword, each once, in descending order
\* of occurrence count with ties in first-occurrence order of the token
\* stream; every term left out has a count no greater than any reported one.
\* These conditions fix the output, so equal inputs give equal output.
C10_KeywordRanking ==
    pc = "return" =>
        /\ Len(keywords) <= TopN
        /\ Len(keywords) = IF Cardinality(Candidates) < TopN
                           THEN Cardinality(Candidates) ELSE TopN
        /\ Reported \subseteq Candidates
        /\ \A i, j \in DOMAIN keywords :
              i < j =>
                 /\ keywords[i] # keywords[j]
                 /\ \/ CountOf(keywords[i]) > CountOf(keywords[j])
                    \/ /\ CountOf(keywords[i]) = CountOf(keywords[j])
                       /\ FirstOf(keywords[i]) < FirstOf(keywords[j])
        /\ \A t \in Candidates \ Reported :
              \A i \in DOMAIN keywords : CountOf(t) <= CountOf(keywords[i])

\* More than 10 candidates, a tie at the cut, and a stopword in the text.
C10_Witness ==
    /\ pc = "return"
    /\ Cardinality(Candidates) > TopN
    /\ Len(keywords) = TopN
    /\ \E t \in Candidates \ Reported : CountOf(t) = CountOf(keywords[TopN])
    /\ \E i \in DOMAIN Tokens : Tokens[i] \in stop_words
    /\ \E i \in DOMAIN keywords : CountOf(keywords[i]) > 1

----------------------------------------------------------------------------
(* Printed lines, URLs and the network. *)

\* color_print(status, label, content)
Line(st, label, c) == [status |-> st, label |-> label, content |-> c]

\* section_header(title)
Header(title) == [status |-> "HEADER", label |-> title, content |-> [msg |-> ""]]

Msg(m) == [msg |-> m]

U(scheme, host, path) == [scheme |-> scheme, host |-> host, path |-> path]

\* args.url, and the URL it redirects to when the server redirects
PageUrl == U("https", "a.example", "/")
RedirectUrl == U("https", "www.a.example", "/")

\* urlparse(url).netloc
netloc(url) == url.host

\* requests.compat.urljoin(base, ref): a reference with a scheme stands for
\* itself, one with a host takes the base's scheme, an empty one is the base,
\* and a path is resolved on the base's scheme and host.
urljoin(base, ref) ==
    IF ref.scheme # "" THEN ref
    ELSE IF ref.host # "" THEN U(base.scheme, ref.host, ref.path)
    ELSE IF ref.path = "" THEN base
    ELSE U(base.scheme, base.host, ref.path)

\* An answer with a status code, and the transport errors of requests.
Http(code) == [kind |-> "Http", status_code |-> code]
Timeout == [kind |-> "Timeout"]
ConnectionError == [kind |-> "ConnectionError"]
SSLError == [kind |-> "SSLError"]

\* isinstance(e, requests.exceptions.RequestException)
IsRequestException(o) ==
    o.kind \in {"Timeout", "ConnectionError", "SSLError", "HTTPError"}

\* isinstance(e, requests.exceptions.SSLError)
IsSSLError(o) == o.kind = "SSLError"

\* A request as the log keeps it: who issued it, and what the network did.
Req(by, method, url, o) ==
    [by |-> by, method |-> method, url |-> url, outcome |-> o]

\* What a called function did: the lines it printed, the requests it issued,
\* and whether an exception left it.
Did(lines, requests, raised) ==
    [lines |-> lines, reqs |-> requests, raised |-> raised]

----------------------------------------------------------------------------
(* fetch_url_content *)

EmptyDoc ==
    [head |-> FALSE, title |-> <<>>, desc |-> <<>>, canonical |-> <<>>,
     h1 |-> <<>>, h2 |-> <<>>, h3 |-> <<>>,
     media |-> <<>>, images |-> <<>>, anchors |-> <<>>, text |-> <<>>]

\* The server's side of the primary GET: a transport error, or an answer
\* that may be reached through one redirect.
ServerAnswer(redirect, code) ==
    [kind |-> "Http", redirect |-> redirect, status_code |-> code]

PrimaryOutcomes ==
    {Timeout, ConnectionError}
        \cup {ServerAnswer(r, c) : r \in BOOLEAN, c \in {200, 404, 500}}

\* requests.get(url, allow_redirects=follow_redirects) on an answer
\* (the body of a redirect that is not followed holds no document)
ResponseOf(url, follow_redirects, o, doc) ==
    IF o.redirect /\ follow_redirects
    THEN [kind |-> "Response", status_code |-> o.status_code, url |-> RedirectUrl,
          history |-> <<[url |-> url, status_code |-> 301]>>, doc |-> doc]
    ELSE IF o.redirect
    THEN [kind |-> "Response", status_code |-> 301, url |-> url,
          history |-> <<>>, doc |-> EmptyDoc]
    ELSE [kind |-> "Response", status_code |-> o.status_code, url |-> url,
          history |-> <<>>, doc |-> doc]

raise_for_status_Never(r) == FALSE

\* response.raise_for_status() raises HTTPError
raise_for_status(r) == 400 <= r.status_code /\ r.status_code < 600

PerformanceLines ==
    <<Line("GOOD", "Initial response time", Msg("seconds")),
      Line("GOOD", "Total load time", Msg("seconds")),
      Line("GOOD", "Page size", Msg("KB"))>>

\* The returned value and the printed lines.
fetch_url_content(url, follow_redirects, o, doc) ==
    LET r == ResponseOf(url, follow_redirects, o, doc)
        failed == [ret |-> None,
                   lines |-> <<Header("Performance"),
                               Line("FAIL", "Error", Msg("Failed to fetch URL"))>>]
    IN  IF IsRequestException(o) THEN failed
        ELSE IF raise_for_status(r) THEN failed
        ELSE [ret |-> r, lines |-> <<Header("Performance")>> \o PerformanceLines]

----------------------------------------------------------------------------
(* print_redirect_history, print_status_code *)

\* A None argument raises AttributeError at response.history.
print_redirect_history(r) ==
    IF r = None THEN Did(<<Header("Redirects")>>, <<>>, TRUE)
    ELSE IF r.history # <<>>
    THEN Did(<<Header("Redirects")>>
               \o [i \in DOMAIN r.history |->
                     Line("NEUTRAL", "Step",
                          [msg |-> "Status Code", step |-> i,
                           status_code |-> r.history[i].status_code])]
               \o <<Line("GOOD", "Final URL",
                         [msg |-> "Status Code", status_code |-> r.status_code])>>,
             <<>>, FALSE)
    ELSE Did(<<Header("Redirects"),
               Line("NEUTRAL", "Redirect history", Msg("No redirects found."))>>,
             <<>>, FALSE)

print_status_code(r) ==
    <<Header("Status Code"),
      Line(IF r.status_code = 200 THEN "GOOD" ELSE "FAIL", "Status Code",
           [msg |-> "", status_code |-> r.status_code])>>

----------------------------------------------------------------------------
(* check_google_index_status *)

GoogleSearchUrl == U("https", "www.google.com", "/search?q=site:")

\* The search answers 200 with or without the marker phrase, answers another
\* status, or the request fails.
GoogleOutcomes ==
    {[kind |-> "Http", status_code |-> 200, no_match |-> FALSE],
     [kind |-> "Http", status_code |-> 200, no_match |-> TRUE],
     [kind |-> "Http", status_code |-> 429, no_match |-> FALSE],
     ConnectionError}

check_google_index_status(url, o) ==
    Did(<<Header("Google Index Status"),
          IF IsRequestException(o)
          THEN Line("FAIL", "Google Index", Msg("Error while checking Google index"))
          ELSE IF o.status_code = 200
          THEN IF o.no_match
               THEN Line("FAIL", "Google Index", Msg("URL not found in Google index"))
               ELSE Line("GOOD", "Google Index", Msg("URL is indexed by Google"))
          ELSE Line("FAIL", "Google Index",
                    [msg |-> "Failed to check Google index",
                     status_code |-> o.status_code])>>,
        <<Req("check_google_index_status", "GET", GoogleSearchUrl, o)>>, FALSE)

----------------------------------------------------------------------------
(* print_seo_relevant_header_info *)

print_seo_relevant_header_info(r) ==
    <<Header("SEO Header Analysis")>> \o
    IF r.doc.head
    THEN <<Line(evaluate_field_length(r.doc.title, SEO_TITLE_LIMITS), "Title",
                [msg |-> "", len |-> Len(r.doc.title)]),
           Line(evaluate_field_length(r.doc.desc, SEO_DESC_LIMITS), "Description",
                [msg |-> "", len |-> Len(r.doc.desc)])>>
         \o (IF r.doc.canonical # <<>>
             THEN <<Line("GOOD", "Canonical", Msg(""))>> ELSE <<>>)
    ELSE <<Line("FAIL", "Header", Msg("No <head> section found."))>>

----------------------------------------------------------------------------
(* print_heading_tags *)

heading_status_NoLimit(heading, c) == IF c # <<>> THEN "GOOD" ELSE "FAIL"

\* The status of one heading tag.
heading_status(heading, c) ==
    IF heading = "H1" THEN evaluate_field_length(c, <<1, SEO_H1_LIMIT>>)
    ELSE IF c # <<>> THEN "GOOD" ELSE "FAIL"

HeadingLines(heading, tags) ==
    [i \in DOMAIN tags |->
        Line(heading_status(heading, tags[i]), heading,
             [msg |-> "", len |-> Len(tags[i])])]

print_heading_tags(r) ==
    <<Header("SEO Content Analysis")>>
    \o (IF r.doc.h1 = <<>>
        THEN <<Line("FAIL", "Headings", Msg("No H1 tag found."))>> ELSE <<>>)
    \o HeadingLines("H1", r.doc.h1)
    \o HeadingLines("H2", r.doc.h2)
    \o HeadingLines("H3", r.doc.h3)
    \o (IF Len(r.doc.h1) > 1
        THEN <<Line("FAIL", "Headings", Msg("Multiple H1 tags found."))>> ELSE <<>>)

----------------------------------------------------------------------------
(* semantic_analysis *)

LANGUAGE_MAP ==
    [code \in {"de", "el", "en", "es", "fi", "fr", "it", "nl", "no", "pl",
               "pt", "sv", "zh"} |->
        CASE code = "de" -> "german"
          [] code = "el" -> "greek"
          [] code = "en" -> "english"
          [] code = "es" -> "spanish"
          [] code = "fi" -> "finnish"
          [] code = "fr" -> "french"
          [] code = "it" -> "italian"
          [] code = "nl" -> "dutch"
          [] code = "no" -> "norwegian"
          [] code = "pl" -> "polish"
          [] code = "pt" -> "portuguese"
          [] code = "sv" -> "swedish"
          [] code = "zh" -> "chinese"]

\* nltk's stopword list of a language; there is none for polish.
NltkHas(language) == language # "polish"
NltkStopwords(language) ==
    IF language = "english" THEN {Word(1)}
    ELSE IF language = "german" THEN {Word(2)}
    ELSE {}

\* What langdetect makes of the text (an exception, or a language code), and
\* whether the stopword corpus is installed.
DetectOutcomes ==
    {[detect |-> d, corpus |-> c] :
        d \in {"LangDetectException", "en", "pl", "ja"}, c \in BOOLEAN}

semantic_analysis(r, o) ==
    <<Header("Semantic Analysis")>> \o
    IF o.detect = "LangDetectException" \/ r.doc.text = <<>>
    THEN <<Line("FAIL", "Language Detection", Msg("Error detecting language"))>>
    ELSE <<Line("GOOD", "Document Language", Msg(o.detect))>> \o
         IF o.detect \notin DOMAIN LANGUAGE_MAP
         THEN <<Line("FAIL", "Stopwords", Msg("Stopwords not available"))>>
         ELSE IF ~o.corpus \/ ~NltkHas(LANGUAGE_MAP[o.detect])
         THEN <<Line("FAIL", "Stopwords", Msg("Error retrieving stopwords"))>>
         ELSE <<Line("GOOD", "Relevant Keywords",
                     [msg |-> "",
                      keywords |-> relevant_keywords(r.doc.text,
                                      NltkStopwords(LANGUAGE_MAP[o.detect]))])>>

----------------------------------------------------------------------------
(* print_media_info *)

\* alt_text if len(alt_text) < 50 else alt_text[:50] + '...'
Truncated(t) == IF Len(t) < 50 THEN t ELSE SubSeq(t, 1, 50) \o <<".", ".", ".">>

IsDataUri_Never(src) == FALSE

\* src.startswith('data:')
IsDataUri(src) == src.scheme = "data"

\* 'Video' if media.name == 'video' else 'Diverse (%s)' % media.name
MediaLabel(name) == IF name = "video" THEN "Video" ELSE "Diverse (audio)"

MediaLines(media) ==
    [i \in DOMAIN media |->
        IF media[i].src # <<>>
        THEN Line("GOOD", MediaLabel(media[i].name), Msg("Source"))
        ELSE Line("FAIL", MediaLabel(media[i].name), Msg("No source found"))]

image_status_NoAlt(alt_text) == "GOOD"

\* 'GOOD' if alt_text else 'FAIL'
image_status(alt_text) == IF alt_text # <<>> THEN "GOOD" ELSE "FAIL"

\* The loop over the images from image k on; o[k] is the outcome of the GET
\* for image k.
RECURSIVE image_loop(_, _, _, _)
image_loop(base_url, images, o, k) ==
    IF k > Len(images) THEN Did(<<>>, <<>>, FALSE)
    ELSE
        LET img == images[k]
            alt_text == Truncated(img.alt)
            rest == image_loop(base_url, images, o, k + 1)
            absolute_url == urljoin(base_url, img.src)
        IN  IF IsDataUri(img.src)
            THEN Did(<<Line("NEUTRAL", "Image",
                            Msg("Inline image detected, no further analysis"))>>
                       \o rest.lines,
                     rest.reqs, FALSE)
            ELSE Did(<<IF IsRequestException(o[k])
                       THEN Line("FAIL", "Image", Msg("Error fetching image"))
                       ELSE Line(image_status(alt_text), "Image",
                                 [msg |-> "ALT", alt_len |-> Len(alt_text)])>>
                       \o rest.lines,
                     <<Req("print_media_info", "GET", absolute_url, o[k])>>
                       \o rest.reqs,
                     FALSE)

print_media_info(r, o) ==
    LET imgs == image_loop(r.url, r.doc.images, o, 1)
    IN  Did(<<Header("SEO Media Analysis")>> \o MediaLines(r.doc.media)
              \o imgs.lines,
            imgs.reqs, FALSE)

----------------------------------------------------------------------------
(* print_links_info *)

\* href.startswith('tel:') or ... 'mailto:' or ... 'javascript:'
IsIgnoredHref(href) == href.scheme \in {"tel", "mailto", "javascript"}

\* The collected links: every kept href resolved against the page's URL.
full_urls(r) ==
    LET kept == SelectSeq(r.doc.anchors, LAMBDA h : ~IsIgnoredHref(h))
    IN  [i \in DOMAIN kept |-> urljoin(r.url, kept[i])]

internal_links(r) ==
    SelectSeq(full_urls(r), LAMBDA u : netloc(u) = netloc(r.url))

external_links(r) ==
    SelectSeq(full_urls(r), LAMBDA u : netloc(u) # netloc(r.url))

link_status_Lenient(code) ==
    IF 200 <= code /\ code < 400 THEN "GOOD" ELSE "FAIL"

link_status(code) ==
    IF 200 <= code /\ code < 300 THEN "GOOD"
    ELSE IF 300 <= code /\ code < 400 THEN "NEUTRAL"
    ELSE "FAIL"

LinkLine(url, o) ==
    IF IsRequestException(o)
    THEN Line("FAIL", "Link", [msg |-> "Error fetching URL", url |-> url])
    ELSE Line(link_status(o.status_code), "Link",
              [msg |-> "Status", status_code |-> o.status_code, url |-> url])

\* A loop that remembers the URLs it has probed and reuses their results.
RECURSIVE link_loop_Memo(_, _, _, _)
link_loop_Memo(urls, o, k, n) ==
    IF k > Len(urls) THEN Did(<<>>, <<>>, FALSE)
    ELSE
        LET rest == link_loop_Memo(urls, o, k + 1, n)
            seen == {j \in 1..(k - 1) : urls[j] = urls[k]}
            first == IF seen = {} THEN k
                     ELSE CHOOSE j \in seen : \A i \in seen : j <= i
        IN  Did(<<LinkLine(urls[k], o[n + first])>> \o rest.lines,
                (IF seen = {}
                 THEN <<Req("print_links_info", "GET", urls[k], o[n + k])>>
                 ELSE <<>>) \o rest.reqs,
                FALSE)

\* for url in links: one GET and one line each; o[n + k] is the outcome of
\* the GET for the k-th URL of the list.
RECURSIVE link_loop(_, _, _, _)
link_loop(urls, o, k, n) ==
    IF k > Len(urls) THEN Did(<<>>, <<>>, FALSE)
    ELSE
        LET rest == link_loop(urls, o, k + 1, n)
        IN  Did(<<LinkLine(urls[k], o[n + k])>> \o rest.lines,
                <<Req("print_links_info", "GET", urls[k], o[n + k])>> \o rest.reqs,
                FALSE)

print_links_info(r, o) ==
    LET internal == link_loop(internal_links(r), o, 1, 0)
        external == link_loop(external_links(r), o, 1, Len(internal_links(r)))
    IN  Did(<<Header("Link Analysis"),
              Line("SECTION", "Internal links", Msg(""))>> \o internal.lines
              \o <<Line("SECTION", "External links", Msg(""))>> \o external.lines,
            internal.reqs \o external.reqs, FALSE)

----------------------------------------------------------------------------
(* check_server_info *)

DnsUrl == U("https", "dns.google", "/resolve?name=")

\* GET of a well-known file: found, not found, or no connection.
FileOutcomes == {Http(200), Http(404), ConnectionError}

\* The verified GET of the URL: answered, a certificate error, or another
\* transport error.
TlsOutcomes == {Http(200), SSLError, ConnectionError}

\* The DNS lookup: an answer with or without an Answer record, or an error.
DnsOutcomes ==
    {[kind |-> "Http", answer |-> TRUE], [kind |-> "Http", answer |-> FALSE],
     ConnectionError}

\* The HEAD request: answered with or without a Server header, or an error.
HeadOutcomes ==
    {[kind |-> "Http", server |-> TRUE], [kind |-> "Http", server |-> FALSE],
     Timeout}

ServerOutcomes ==
    [sitemap : FileOutcomes, robots : FileOutcomes, tls : TlsOutcomes,
     dns : DnsOutcomes, head : HeadOutcomes]

FileLine(label, o) ==
    IF IsRequestException(o) THEN Line("FAIL", label, Msg("Error checking"))
    ELSE IF o.status_code = 200 THEN Line("GOOD", label, Msg("Found"))
    ELSE Line("FAIL", label, Msg("Not found"))

check_server_info(url, o) ==
    LET by == "check_server_info"
        base_url == U(url.scheme, netloc(url), "")
        sitemap_url == U(url.scheme, netloc(url), "/sitemap.xml")
        robots_url == U(url.scheme, netloc(url), "/robots.txt")
        upToTls ==
            Did(<<Header("Server Information"),
                  FileLine("Sitemap", o.sitemap),
                  FileLine("robots.txt", o.robots)>>,
                <<Req(by, "GET", sitemap_url, o.sitemap),
                  Req(by, "GET", robots_url, o.robots),
                  Req(by, "GET", url, o.tls)>>,
                FALSE)
        ipLine ==
            IF IsRequestException(o.dns)
            THEN Line("FAIL", "Server IP", Msg("Error retrieving IP address"))
            ELSE IF o.dns.answer
            THEN Line("GOOD", "Server IP", Msg("data"))
            ELSE Line("FAIL", "Server IP", Msg("Could not retrieve IP address"))
        softwareLine ==
            IF IsRequestException(o.head)
            THEN Line("FAIL", "Server Software",
                      Msg("Error retrieving server software information"))
            ELSE Line("NEUTRAL", "Server Software",
                      Msg(IF o.head.server THEN "Server" ELSE "Unknown"))
        afterTls(sslLine) ==
            Did(upToTls.lines \o <<sslLine, ipLine, softwareLine>>,
                upToTls.reqs \o <<Req(by, "GET", DnsUrl, o.dns),
                                  Req(by, "HEAD", url, o.head)>>,
                FALSE)
    IN  IF ~IsRequestException(o.tls)
        THEN afterTls(Line("GOOD", "SSL Certificate", Msg("Valid")))
        ELSE IF IsSSLError(o.tls)
        THEN afterTls(Line("FAIL", "SSL Certificate", Msg("Invalid or not present")))
        ELSE \* no handler for the exception: it leaves the function
             Did(upToTls.lines, upToTls.reqs, TRUE)

----------------------------------------------------------------------------
(* main *)

Flags == {"follow", "media", "links", "server", "google", "content",
          "semantic", "all"}

\* lines 526-533
Options(args) ==
    [follow_redirects |-> args["follow"] \/ args["all"],
     analyze_media |-> args["media"] \/ args["all"],
     check_links |-> args["links"] \/ args["all"],
     check_server |-> args["server"] \/ args["all"],
     google_check |-> args["google"] \/ args["all"],
     check_content |-> args["content"] \/ args["all"],
     perform_semantic |-> args["semantic"] \/ args["all"]]

AllOptions == {Options(args) : args \in [Flags -> BOOLEAN]}

\* The options of a run with the given flags set, with and without --follow.
OptionsWith(flags) ==
    {Options([f \in Flags |-> f \in flags \/ (f = "follow" /\ b)]) :
        b \in BOOLEAN}

Truthy_Always(r) == TRUE

\* if response: None is false, and a Response is its ok attribute
Truthy(r) ==
    IF r = None THEN FALSE
    ELSE ~(400 <= r.status_code /\ r.status_code < 600)

\* The effect of a call on the printed lines, the request log and main().
Call(d, next) ==
    /\ out' = out \o d.lines
    /\ reqs' = reqs \o d.reqs
    /\ pc' = IF d.raised THEN "crashed" ELSE next

Skip(next) ==
    /\ pc' = next
    /\ UNCHANGED <<out, reqs>>

MainCheckServer ==
    /\ pc = "check_server_info"
    /\ IF opts.check_server
       THEN \E o \in ServerOutcomes :
                Call(check_server_info(PageUrl, o), "fetch_url_content")
       ELSE Skip("fetch_url_content")
    /\ UNCHANGED <<opts, site, fetched, response>>
    /\ UNCHANGED fieldVars
    /\ UNCHANGED rankVars

MainFetch ==
    /\ pc = "fetch_url_content"
    /\ \E o \in PrimaryOutcomes :
          LET f == fetch_url_content(PageUrl, opts.follow_redirects, o, site)
          IN  /\ fetched' = o
              /\ response' = f.ret
              /\ reqs' = Append(reqs, Req("fetch_url_content", "GET", PageUrl, o))
              /\ IF Truthy(f.ret)
                 THEN /\ out' = out \o f.lines
                      /\ pc' = "print_redirect_history"
                 ELSE /\ out' = out \o f.lines \o
                            <<Line("FAIL", "Fetch", Msg("Failed to retrieve the URL."))>>
                      /\ pc' = "done"
    /\ UNCHANGED <<opts, site>>
    /\ UNCHANGED fieldVars
    /\ UNCHANGED rankVars

MainRedirectHistory ==
    /\ pc = "print_redirect_history"
    /\ Call(print_redirect_history(response), "print_status_code")
    /\ UNCHANGED <<opts, site, fetched, response>>
    /\ UNCHANGED fieldVars
    /\ UNCHANGED rankVars

MainStatusCode ==
    /\ pc = "print_status_code"
    /\ Call(Did(print_status_code(response), <<>>, FALSE),
            "check_google_index_status")
    /\ UNCHANGED <<opts, site, fetched, response>>
    /\ UNCHANGED fieldVars
    /\ UNCHANGED rankVars

MainGoogle ==
    /\ pc = "check_google_index_status"
    /\ IF opts.google_check
       THEN \E o \in GoogleOutcomes :
                Call(check_google_index_status(PageUrl, o),
                     "print_seo_relevant_header_info")
       ELSE Skip("print_seo_relevant_header_info")
    /\ UNCHANGED <<opts, site, fetched, response>>
    /\ UNCHANGED fieldVars
    /\ UNCHANGED rankVars

MainHeaderInfo ==
    /\ pc = "print_seo_relevant_header_info"
    /\ Call(Did(print_seo_relevant_header_info(response), <<>>, FALSE),
            "print_heading_tags")
    /\ UNCHANGED <<opts, site, fetched, response>>
    /\ UNCHANGED fieldVars
    /\ UNCHANGED rankVars

MainHeadingTags ==
    /\ pc = "print_heading_tags"
    /\ IF opts.check_content
       THEN Call(Did(print_heading_tags(response), <<>>, FALSE), "semantic_analysis")
       ELSE Skip("semantic_analysis")
    /\ UNCHANGED <<opts, site, fetched, response>>
    /\ UNCHANGED fieldVars
    /\ UNCHANGED rankVars

\* main() with a semantic analysis whose failures are not handled: a FAIL
\* line of the analysis ends the run.
MainSemantic_Fatal ==
    /\ pc = "semantic_analysis"
    /\ IF opts.perform_semantic
       THEN \E o \in DetectOutcomes :
                LET lines == semantic_analysis(response, o)
                IN  Call(Did(lines, <<>>,
                             \E i \in DOMAIN lines : lines[i].status = "FAIL"),
                         "print_media_info")
       ELSE Skip("print_media_info")
    /\ UNCHANGED <<opts, site, fetched, response>>
    /\ UNCHANGED fieldVars
    /\ UNCHANGED rankVars

MainSemantic ==
    /\ pc = "semantic_analysis"
    /\ IF opts.perform_semantic
       THEN \E o \in DetectOutcomes :
                Call(Did(semantic_analysis(response, o), <<>>, FALSE),
                     "print_media_info")
       ELSE Skip("print_media_info")
    /\ UNCHANGED <<opts, site, fetched, response>>
    /\ UNCHANGED fieldVars
    /\ UNCHANGED rankVars

\* The outcomes of the GET of an image or of a link.
ProbeOutcomes == {Http(200), Http(301), Http(404), Timeout}

MainMedia ==
    /\ pc = "print_media_info"
    /\ IF opts.analyze_media
       THEN \E o \in [DOMAIN response.doc.images -> ProbeOutcomes] :
                Call(print_media_info(response, o), "print_links_info")
       ELSE Skip("print_links_info")
    /\ UNCHANGED <<opts, site, fetched, response>>
    /\ UNCHANGED fieldVars
    /\ UNCHANGED rankVars

MainLinks ==
    /\ pc = "print_links_info"
    /\ IF opts.check_links
       THEN \E o \in [DOMAIN full_urls(response) -> ProbeOutcomes] :
                Call(print_links_info(response, o), "done")
       ELSE Skip("done")
    /\ UNCHANGED <<opts, site, fetched, response>>
    /\ UNCHANGED fieldVars
    /\ UNCHANGED rankVars

MainNext ==
    \/ MainCheckServer
    \/ MainFetch
    \/ MainRedirectHistory
    \/ MainStatusCode
    \/ MainGoogle
    \/ MainHeaderInfo
    \/ MainHeadingTags
    \/ MainSemantic
    \/ MainMedia
    \/ MainLinks

\* The state main() starts in, for a set of option records and of documents.
MainInit(options, sites) ==
    /\ pc = "check_server_info"
    /\ opts \in options
    /\ site \in sites
    /\ fetched = None
    /\ response = None
    /\ out = <<>>
    /\ reqs = <<>>
    /\ FieldIdle
    /\ RankIdle

\* Scenario A: title of 55, description of 140, one H1 of 30 characters.
ScenarioA ==
    [EmptyDoc EXCEPT !.head = TRUE, !.title = Str(55), !.desc = Str(140),
                     !.h1 = <<Str(30)>>,
                     !.text = <<Word(1), Word(2), Upper(2), Word(3)>>]

Init == MainInit(AllOptions, {ScenarioA})

Next == MainNext

Spec == Init /\ [][Next]_vars

----------------------------------------------------------------------------
(* Reading the printed lines and the request log. *)

Stages ==
    <<"check_server_info", "fetch_url_content", "print_redirect_history",
      "print_status_code", "check_google_index_status",
      "print_seo_relevant_header_info", "print_heading_tags",
      "semantic_analysis", "print_media_info", "print_links_info", "done">>

StageOf(p) == CHOOSE i \in DOMAIN Stages : Stages[i] = p

\* main() fetched the page and has returned from the call of stage p.
Past(p) ==
    /\ pc \in {Stages[i] : i \in DOMAIN Stages}
    /\ StageOf(pc) > StageOf(p)
    /\ response # None

HasHeader(title) == \E i \in DOMAIN out : out[i] = Header(title)

LinesOf(label) == SelectSeq(out, LAMBDA l : l.label = label)
RequestsBy(by) == SelectSeq(reqs, LAMBDA q : q.by = by)

PageSections ==
    {"Redirects", "Status Code", "Google Index Status", "SEO Header Analysis",
     "SEO Content Analysis", "Semantic Analysis", "SEO Media Analysis",
     "Link Analysis"}

ServerLabels ==
    <<"Sitemap", "robots.txt", "SSL Certificate", "Server IP", "Server Software">>

FetchFailureLines ==
    <<Header("Performance"),
      Line("FAIL", "Error", Msg("Failed to fetch URL")),
      Line("FAIL", "Fetch", Msg("Failed to retrieve the URL."))>>

FetchFailed == fetched # None /\ response = None

----------------------------------------------------------------------------
(* Claims about main(), fetch_url_content and check_server_info (Spec). *)

\* C2, as claimed: when the primary fetch fails the output holds only the
\* fetch-failure entry and no other section, whatever the flags.
C2_OnlyFetchFailure ==
    FetchFailed => \A i \in DOMAIN out : \E j \in 1..3 : out[i] = FetchFailureLines[j]

\* C2, amended: when the primary fetch fails the output ends with the
\* fetch-failure entries and has none of the sections that depend on the
\* page; the server information section, which runs before the fetch, is
\* there exactly when the server option is set.
C2_FetchFailureOutput ==
    FetchFailed =>
        /\ pc = "done"
        /\ \A t \in PageSections : ~HasHeader(t)
        /\ HasHeader("Server Information") <=> opts.check_server
        /\ IF opts.check_server
           THEN /\ Len(out) = 9
                /\ out[1] = Header("Server Information")
                /\ \A k \in 1..5 : out[k + 1].label = ServerLabels[k]
                /\ SubSeq(out, 7, 9) = FetchFailureLines
           ELSE out = FetchFailureLines

\* The fetch timed out in a run with every option set.
C2_Witness ==
    /\ pc = "done"
    /\ fetched = Timeout
    /\ response = None
    /\ \A f \in DOMAIN opts : opts[f]

\* The status code the primary GET ends on.
TerminalStatus ==
    IF fetched.redirect /\ ~opts.follow_redirects THEN 301 ELSE fetched.status_code

\* C3, as claimed: every answer of the server, 4xx and 5xx included, makes
\* the fetch succeed and reaches the status-code report.
C3_EveryStatusSucceeds ==
    /\ fetched.kind = "Http" => response # None
    /\ fetched.kind = "Http" /\ pc = "done" => HasHeader("Status Code")

\* C3, amended: the fetch succeeds exactly when the server answered with a
\* terminal status below 400; a 4xx or 5xx answer fails the fetch as a
\* transport error does, and never reaches the status-code report.
C3_ErrorStatusFailsFetch ==
    fetched # None =>
        /\ response # None <=> (fetched.kind = "Http" /\ TerminalStatus < 400)
        /\ response # None => response.status_code = TerminalStatus
        /\ response = None => pc = "done" /\ ~HasHeader("Status Code")
        /\ response # None /\ pc = "done" => HasHeader("Status Code")

\* The server answered 404 and the run ended on the fetch failure, with no
\* status-code report.
C3_Witness ==
    /\ pc = "done"
    /\ fetched = ServerAnswer(FALSE, 404)
    /\ response = None
    /\ ~HasHeader("Status Code")

\* C4, as claimed: whatever each server check meets, all five checks emit
\* their finding and the primary fetch is still attempted.
C4_ChecksRecoverable ==
    opts.check_server /\ pc # "check_server_info" =>
        /\ \A k \in 1..5 : Len(LinesOf(ServerLabels[k])) = 1
        /\ pc # "crashed"
        /\ pc = "done" => fetched # None

----------------------------------------------------------------------------
(* Heading analysis: runs with --content over generated pages. *)

H1Texts == {Str(0), Str(30), Str(SEO_H1_LIMIT), Str(SEO_H1_LIMIT + 1)}

HeadingSites ==
    {[ScenarioA EXCEPT !.h1 = h1, !.h2 = h2, !.h3 = h3] :
        h1 \in SeqsUpTo(H1Texts, MaxHeadings),
        h2 \in {<<>>, <<Str(0), Str(5)>>},
        h3 \in {<<>>, <<Str(5)>>}}

HeadingsInit == MainInit(OptionsWith({"content"}), HeadingSites)

SpecHeadings == HeadingsInit /\ [][MainNext]_vars

NoH1Line == Line("FAIL", "Headings", Msg("No H1 tag found."))
MultipleH1Line == Line("FAIL", "Headings", Msg("Multiple H1 tags found."))

HeadingsRan == Past("print_heading_tags") /\ opts.check_content

\* C7, as claimed: an H1 finding is GOOD only if its length is in [1,70] and
\* the page has exactly one H1.
C7_GoodOnlyIfSingle ==
    HeadingsRan =>
        \A i \in DOMAIN LinesOf("H1") :
            LinesOf("H1")[i].status = "GOOD" =>
                /\ Len(response.doc.h1[i]) \in 1..70
                /\ Len(response.doc.h1) = 1

\* C7, amended: every H1 tag gets one finding, GOOD exactly when its own
\* length is in [1,70] whatever the number of H1 tags; a page without H1
\* gets the absence FAIL, a page with more than one gets the multiplicity
\* FAIL, and a page with exactly one gets neither.
C7_HeadingFindings ==
    HeadingsRan =>
        LET h1 == response.doc.h1
            found == LinesOf("H1")
            count == LinesOf("Headings")
        IN  /\ Len(found) = Len(h1)
            /\ \A i \in DOMAIN h1 :
                  /\ found[i].status = "GOOD" <=> Len(h1[i]) \in 1..70
                  /\ found[i].status = "FAIL" <=> Len(h1[i]) = 0
            /\ Len(h1) = 0 <=> (\E i \in DOMAIN count : count[i] = NoH1Line)
            /\ Len(h1) > 1 <=> (\E i \in DOMAIN count : count[i] = MultipleH1Line)
            /\ Len(h1) = 1 => count = <<>>

\* A page with two H1 tags, one of them of 30 characters: its finding is
\* GOOD and the multiplicity FAIL is printed too.
C7_Witness ==
    /\ HeadingsRan
    /\ Len(response.doc.h1) = 2
    /\ \E i \in DOMAIN LinesOf("H1") :
          LinesOf("H1")[i].status = "GOOD" /\ Len(response.doc.h1[i]) = 30
    /\ \E i \in DOMAIN out : out[i] = MultipleH1Line

----------------------------------------------------------------------------
(* Media analysis: runs with --media over generated pages. *)

DataUri == U("data", "", "image/png;base64,")

ImageKinds ==
    {[alt |-> Str(a), src |-> s] :
        a \in {0, 3}, s \in {DataUri, U("", "", "/i.png"), U("", "", "")}}
      \cup {[alt |-> Str(50), src |-> U("https", "cdn.example", "/j.png")]}

MediaSites ==
    {[ScenarioA EXCEPT !.images = images, !.media = media] :
        images \in SeqsUpTo(ImageKinds, MaxImages),
        media \in {<<>>, <<[name |-> "video", src |-> Str(5)],
                           [name |-> "audio", src |-> Str(0)]>>}}

MediaInit == MainInit(OptionsWith({"media"}), MediaSites)

SpecMedia == MediaInit /\ [][MainNext]_vars

MediaRan == Past("print_media_info") /\ opts.analyze_media

InlineLine ==
    Line("NEUTRAL", "Image", Msg("Inline image detected, no further analysis"))

\* The images that are not inline, in page order.
ProbedImages ==
    SelectSeq(response.doc.images, LAMBDA img : img.src.scheme # "data")

\* Which of the probed images image i is.
ProbeRank(i) ==
    Cardinality({j \in 1..i : response.doc.images[j].src.scheme # "data"})

\* C8: an image whose src begins with data: is recorded as inline and no
\* request is issued for it; every other image is probed exactly once, at
\* its src resolved against the page's final URL.
C8_InlineNeverProbed ==
    MediaRan =>
        LET images == response.doc.images
            found == LinesOf("Image")
            probes == RequestsBy("print_media_info")
        IN  /\ Len(found) = Len(images)
            /\ \A i \in DOMAIN images :
                  images[i].src.scheme = "data" <=> found[i] = InlineLine
            /\ \A k \in DOMAIN probes : probes[k].url.scheme # "data"
            /\ Len(probes) = Len(ProbedImages)
            /\ \A k \in DOMAIN probes :
                  /\ probes[k].method = "GET"
                  /\ probes[k].url = urljoin(response.url, ProbedImages[k].src)

\* A page reached through a redirect, with an inline image and a relative
\* one: only the second was probed, on the final URL's host.
C8_Witness ==
    /\ MediaRan
    /\ response.url = RedirectUrl
    /\ \E i, j \in DOMAIN response.doc.images :
          /\ response.doc.images[i].src.scheme = "data"
          /\ response.doc.images[j].src = U("", "", "/i.png")
    /\ Len(RequestsBy("print_media_info")) = 1
    /\ RequestsBy("print_media_info")[1].url = U("https", "www.a.example", "/i.png")

\* C9, as claimed: the finding of an image that is not inline is GOOD when
\* it has alt text and FAIL when it has none, whether or not its probe
\* succeeded.
C9_AltAlone ==
    MediaRan =>
        \A i \in DOMAIN response.doc.images :
            response.doc.images[i].src.scheme # "data" =>
                LinesOf("Image")[i].status =
                    IF response.doc.images[i].alt # <<>> THEN "GOOD" ELSE "FAIL"

\* C9, amended: the finding of an image that is not inline is GOOD exactly
\* when its probe raised no transport error and it has alt text, and FAIL
\* otherwise; the status code of an answered probe plays no part.
C9_AltAndProbe ==
    MediaRan =>
        \A i \in DOMAIN response.doc.images :
            response.doc.images[i].src.scheme # "data" =>
                LET line == LinesOf("Image")[i]
                    probe == RequestsBy("print_media_info")[ProbeRank(i)]
                IN  /\ line.status \in {"GOOD", "FAIL"}
                    /\ line.status = "GOOD" <=>
                          /\ response.doc.images[i].alt # <<>>
                          /\ probe.outcome \notin {Timeout, ConnectionError, SSLError}

\* An image with alt text whose probe timed out was found FAIL, and one
\* with alt text whose probe was answered 404 was found GOOD.
C9_Witness ==
    /\ MediaRan
    /\ \E i, j \in DOMAIN response.doc.images :
          /\ response.doc.images[i].src.scheme # "data"
          /\ response.doc.images[i].alt # <<>>
          /\ RequestsBy("print_media_info")[ProbeRank(i)].outcome = Timeout
          /\ LinesOf("Image")[i].status = "FAIL"
          /\ response.doc.images[j].src.scheme # "data"
          /\ response.doc.images[j].alt # <<>>
          /\ RequestsBy("print_media_info")[ProbeRank(j)].outcome = Http(404)
          /\ LinesOf("Image")[j].status = "GOOD"

----------------------------------------------------------------------------
(* Link analysis: runs with --links over generated pages. *)

Hrefs ==
    {U("", "", "/a"), U("", "", "/b"), U("https", "a.example", "/a"),
     U("https", "other.example", "/"), U("mailto", "", "x@a.example")}

\* Scenario C: three internal anchors, two of them to the same URL, and one
\* external anchor.
ScenarioC ==
    [ScenarioA EXCEPT !.anchors =
        <<U("", "", "/a"), U("", "", "/b"), U("https", "a.example", "/a"),
          U("https", "other.example", "/")>>]

LinkSites ==
    {ScenarioC} \cup
        {[ScenarioA EXCEPT !.anchors = a] : a \in SeqsUpTo(Hrefs, MaxAnchors)}

LinksInit == MainInit(OptionsWith({"links"}), LinkSites)

SpecLinks == LinksInit /\ [][MainNext]_vars

LinksRan == Past("print_links_info") /\ opts.check_links

LinkProbes == RequestsBy("print_links_info")

\* The anchors that are collected: all but tel:, mailto: and javascript:.
Collected ==
    SelectSeq(response.doc.anchors,
              LAMBDA h : h.scheme \notin {"tel", "mailto", "javascript"})

ProbesOf(url) == {k \in DOMAIN LinkProbes : LinkProbes[k].url = url}
AnchorsTo(url) == {i \in DOMAIN Collected : urljoin(response.url, Collected[i]) = url}

\* C5, as claimed: each distinct resolved link URL is probed at most once in
\* a run, so the page of scenario C costs at most 3 probes.
C5_ProbedOnce ==
    LinksRan =>
        /\ \A k \in DOMAIN LinkProbes : Cardinality(ProbesOf(LinkProbes[k].url)) <= 1
        /\ response.doc = ScenarioC => Len(LinkProbes) <= 3

\* C5, amended: every collected anchor is probed on its own, so a resolved
\* URL is probed once for each anchor that points to it, and every anchor
\* gets its record; the page of scenario C costs 4 probes for 4 records.
C5_ProbedPerAnchor ==
    LinksRan =>
        /\ Len(LinkProbes) = Len(Collected)
        /\ Len(LinesOf("Link")) = Len(Collected)
        /\ \A k \in DOMAIN LinkProbes :
              Cardinality(ProbesOf(LinkProbes[k].url))
                  = Cardinality(AnchorsTo(LinkProbes[k].url))
        /\ \A i \in DOMAIN Collected :
              ProbesOf(urljoin(response.url, Collected[i])) # {}
        /\ response.doc = ScenarioC =>
              Len(LinkProbes) = 4 /\ Len(LinesOf("Link")) = 4

\* Scenario C fetched without a redirect: /a was probed twice, once for each
\* of the two anchors that resolve to it.
C5_Witness ==
    /\ LinksRan
    /\ response.doc = ScenarioC
    /\ response.url = PageUrl
    /\ Cardinality(ProbesOf(U("https", "a.example", "/a"))) = 2
    /\ Len(internal_links(response)) = 3
    /\ Len(external_links(response)) = 1

\* The bucket of a probe outcome: 2xx is OK, 3xx is REDIRECT, any other
\* status code and any transport error is FAIL.
Bucket(o) ==
    IF o \in {Timeout, ConnectionError, SSLError} THEN "FAIL"
    ELSE IF o.status_code \in 200..299 THEN "GOOD"
    ELSE IF o.status_code \in 300..399 THEN "NEUTRAL"
    ELSE "FAIL"

\* C6: every collected link gets exactly one finding, in the bucket of its
\* own probe's outcome, and a failing probe does not stop the batch: the
\* links after it are probed and reported too.
C6_LinkBuckets ==
    LinksRan =>
        LET found == LinesOf("Link")
        IN  /\ pc = "done"
            /\ Len(found) = Len(Collected)
            /\ Len(LinkProbes) = Len(found)
            /\ \A k \in DOMAIN found :
                  /\ found[k].content.url = LinkProbes[k].url
                  /\ found[k].status = Bucket(LinkProbes[k].outcome)

\* The first probe timed out, and the links after it were still probed: one
\* answered 2xx, one 3xx.
C6_Witness ==
    /\ LinksRan
    /\ Len(LinkProbes) >= 3
    /\ LinkProbes[1].outcome = Timeout
    /\ LinesOf("Link")[1].status = "FAIL"
    /\ \E j, k \in 2..Len(LinkProbes) :
          /\ LinkProbes[j].outcome = Http(200) /\ LinesOf("Link")[j].status = "GOOD"
          /\ LinkProbes[k].outcome = Http(301) /\ LinesOf("Link")[k].status = "NEUTRAL"

----------------------------------------------------------------------------
(* The order of the analyzers in main() (Spec). *)

\* The analyzers in the order main() calls them, by their section header,
\* and whether each is enabled; the header analysis has no option.
Analyzers ==
    <<[header |-> "SEO Header Analysis", enabled |-> TRUE],
      [header |-> "SEO Content Analysis", enabled |-> opts.check_content],
      [header |-> "Semantic Analysis", enabled |-> opts.perform_semantic],
      [header |-> "SEO Media Analysis", enabled |-> opts.analyze_media],
      [header |-> "Link Analysis", enabled |-> opts.check_links]>>

AnalyzerHeaders == {Analyzers[i].header : i \in DOMAIN Analyzers}

\* The analyzer sections printed, in print order.
SectionsPrinted ==
    LET heads == SelectSeq(out,
                    LAMBDA l : l.status = "HEADER" /\ l.label \in AnalyzerHeaders)
    IN  [i \in DOMAIN heads |-> heads[i].label]

\* The analyzer sections that are enabled, in the order of main().
SectionsEnabled ==
    LET on == SelectSeq(Analyzers, LAMBDA a : a.enabled)
    IN  [i \in DOMAIN on |-> on[i].header]

LexicalFailures ==
    SelectSeq(out, LAMBDA l : l.status = "FAIL"
                                /\ l.label \in {"Language Detection", "Stopwords"})

\* C11: after a successful primary fetch the run never ends on an uncaught
\* failure, and when it is over every enabled analyzer has run exactly once,
\* in the order header, headings, lexical, media, links; a lexical analysis
\* that fails on the language or on its stopwords prints one FAIL and no
\* keywords, and the media and link analyzers after it have still run.
C11_AnalyzersAllRun ==
    response # None =>
        /\ pc # "crashed"
        /\ pc = "done" =>
              /\ SectionsPrinted = SectionsEnabled
              /\ LinesOf("Fetch") = <<>>
              /\ opts.perform_semantic =>
                    Len(LexicalFailures) + Len(LinesOf("Relevant Keywords")) = 1
              /\ ~opts.perform_semantic =>
                    LexicalFailures = <<>> /\ LinesOf("Relevant Keywords") = <<>>

\* A run with every option set in which language detection failed: the
\* lexical analysis printed its FAIL and no keywords, and the media and link
\* sections follow it.
C11_Witness ==
    /\ pc = "done"
    /\ response # None
    /\ \A f \in DOMAIN opts : opts[f]
    /\ LexicalFailures =
          <<Line("FAIL", "Language Detection", Msg("Error detecting language"))>>
    /\ LinesOf("Relevant Keywords") = <<>>
    /\ Len(SectionsPrinted) = 5
    /\ SectionsPrinted[4] = "SEO Media Analysis"
    /\ SectionsPrinted[5] = "Link Analysis"

====
